---- MODULE Spec2Model ----
(***************************************************************************)
(* Model of the GRTC retention demo: the utc_time module (utc_time.c), the *)
(* reboot self-test program (main.c) and the retained-state store it uses  *)
(* (retained.h, not part of the sources at hand, modelled from the         *)
(* specification).                                                         *)
(*                                                                         *)
(* Time is in microseconds (one GRTC tick).  All counter values stay far   *)
(* below 2^63, so the (int64_t)/(uint64_t) casts of utc_time.c are         *)
(* value-preserving and are modelled on the mathematical integers.         *)
(***************************************************************************)
EXTENDS Integers, Sequences, FiniteSets, TLC

(***************************************************************************)
(* Bounds of the model                                                     *)
(***************************************************************************)
\* utc_time module: largest counter value and largest timestamp supplied
MaxTick == 3
MaxUtc == 3
\* largest KEEPRUNNING register value found at power-on
MaxRegInit == 3
\* retained RAM found at power-on: largest boots / other field value
MaxRamBoots == 4
MaxRamField == 1
\* utc_time module: number of soft resets explored
MaxUtcResets == 1
\* self-test program: the counter value up to which time is advanced
MaxGrtc == 45000000

(***************************************************************************)
(* Program constants                                                       *)
(***************************************************************************)
GRTC_KEEPRUNNING_DOMAIN0_Pos == 0
GRTC_KEEPRUNNING_DOMAIN0_Active == 1
MAX_REBOOTS == 3
\* grtc_raw > 1000000ULL : the "counter kept running" threshold
RetentionThresholdUs == 1000000
\* K_SECONDS(10), K_SECONDS(1), k_msleep(100), in microseconds
RebootDelayUs == 10000000
StatusPeriodUs == 10000000
OneSecondUs == 1000000
LogFlushUs == 100000
CountdownStart == 10
\* k_work_delayable that is not scheduled
NoTimer == -1

(***************************************************************************)
(* Bit operations on register values                                       *)
(***************************************************************************)
RECURSIVE BitOr(_, _)
BitOr(a, b) ==
    IF a = 0 THEN b
    ELSE IF b = 0 THEN a
    ELSE (IF a % 2 = 1 \/ b % 2 = 1 THEN 1 ELSE 0) + 2 * BitOr(a \div 2, b \div 2)

RECURSIVE BitAnd(_, _)
BitAnd(a, b) ==
    IF a = 0 \/ b = 0 THEN 0
    ELSE (IF a % 2 = 1 /\ b % 2 = 1 THEN 1 ELSE 0) + 2 * BitAnd(a \div 2, b \div 2)

Shl(x, n) == x * (2 ^ n)

\* the mask (GRTC_KEEPRUNNING_DOMAIN0_Active << GRTC_KEEPRUNNING_DOMAIN0_Pos)
Domain0Mask == Shl(GRTC_KEEPRUNNING_DOMAIN0_Active, GRTC_KEEPRUNNING_DOMAIN0_Pos)

VARIABLES
    grtc,          \* hardware: the GRTC counter, z_nrf_grtc_timer_read()
    keeprunning,   \* hardware: the GRTC KEEPRUNNING register
    utc_offset,    \* utc_time.c: static int64_t utc_offset
    calibrated,    \* utc_time.c: static bool calibrated
    retained,      \* retained.h: the retained block
    mpc,           \* main thread: position in main()
    msleep,        \* main thread: time left in k_sleep (0 = runnable)
    i,             \* main(): the countdown loop variable
    retained_ok,   \* main(): bool retained_ok
    grtc_raw,      \* main(): uint64_t grtc_raw
    wpc,           \* system work queue: position in reboot_work_handler
    wdelay,        \* reboot_work: time left until the delayed work runs
    wsleep,        \* work queue thread: time left in k_msleep
    grtc_before,   \* reboot_work_handler(): uint64_t grtc_before
    op,            \* observer: the operation that ran last
    ret,           \* observer: what that operation returned
    pre,           \* observer: program state when that operation started
    cal,           \* observer: the calibrate call of this boot, if any
    resets,        \* observer: number of sys_reboot calls since power-on
    boot0,         \* observer: outcome of the first boot's validation
    wlog           \* observer: the last two writes to the retained block

hw == <<grtc, keeprunning>>
utc == <<utc_offset, calibrated>>
mainv == <<mpc, msleep, i, retained_ok, grtc_raw>>
workv == <<wpc, wdelay, wsleep, grtc_before>>
vars == <<grtc, keeprunning, utc_offset, calibrated, retained, mpc, msleep, i,
          retained_ok, grtc_raw, wpc, wdelay, wsleep, grtc_before, op, ret,
          pre, cal, resets, boot0, wlog>>

\* the program state an operation starts from
Snapshot ==
    [grtc |-> grtc, keeprunning |-> keeprunning, utc_offset |-> utc_offset,
     calibrated |-> calibrated, retained |-> retained, op |-> op]

\* prev: an earlier boot of this power session was calibrated
NoCal == [set |-> FALSE, U |-> 0, t0 |-> 0, prev |-> FALSE]

\* grtc: the counter value at that validation
NoBoot == [done |-> FALSE, ok |-> FALSE, boots |-> 0, grtc |-> 0]

(***************************************************************************)
(* utc_time.c                                                              *)
(***************************************************************************)
z_nrf_grtc_timer_read == grtc

\* faults: the enable writes the neighbouring domain's bit / toggles the bit
grtc_retention_enable_wrong_pos(reg) ==
    BitOr(reg, Shl(GRTC_KEEPRUNNING_DOMAIN0_Active, GRTC_KEEPRUNNING_DOMAIN0_Pos + 1))

grtc_retention_enable_toggle(reg) ==
    IF BitAnd(reg, Domain0Mask) # 0 THEN reg - Domain0Mask ELSE reg + Domain0Mask

\* fault: the register is assigned (=) instead of or-ed (|=)
grtc_retention_enable_assign(reg) == Domain0Mask

\* *keeprunning_reg |= (Active << Pos): the register after grtc_retention_enable
grtc_retention_enable(reg) == BitOr(reg, Domain0Mask)

\* (*keeprunning_reg & (Active << Pos)) != 0
grtc_retention_check(reg) == BitAnd(reg, Domain0Mask) # 0

\* fault: the operands of the subtraction swapped
calibrate_offset_swapped(utc_timestamp_us, grtc_time) == grtc_time - utc_timestamp_us

\* utc_offset = (int64_t)utc_timestamp_us - (int64_t)grtc_time
calibrate_offset(utc_timestamp_us, grtc_time) == utc_timestamp_us - grtc_time

\* fault: an uncalibrated read reports 0 instead of the raw counter
get_us_value_zero_uncal(grtc_time, isCal, offset) ==
    IF ~isCal THEN 0 ELSE grtc_time + offset

\* the value utc_time_get_us returns for a counter reading
get_us_value(grtc_time, isCal, offset) ==
    IF ~isCal THEN grtc_time ELSE grtc_time + offset

utc_time_calibrate(U) ==
    /\ utc_offset' = calibrate_offset(U, z_nrf_grtc_timer_read)
    /\ calibrated' = TRUE
    /\ keeprunning' = grtc_retention_enable(keeprunning)
    /\ op' = "calibrate"
    /\ ret' = U
    /\ pre' = Snapshot
    /\ cal' = [set |-> TRUE, U |-> U, t0 |-> grtc, prev |-> cal.prev]
    /\ UNCHANGED <<grtc, retained, mainv, workv, resets, boot0, wlog>>

utc_time_is_calibrated ==
    /\ op' = "is_calibrated"
    /\ ret' = calibrated
    /\ pre' = Snapshot
    /\ UNCHANGED <<hw, utc, retained, mainv, workv, cal, resets, boot0, wlog>>

utc_time_get_us ==
    /\ op' = "get_us"
    /\ ret' = get_us_value(z_nrf_grtc_timer_read, calibrated, utc_offset)
    /\ pre' = Snapshot
    /\ UNCHANGED <<hw, utc, retained, mainv, workv, cal, resets, boot0, wlog>>

utc_time_enable_retention ==
    /\ keeprunning' = grtc_retention_enable(keeprunning)
    /\ op' = "enable_retention"
    /\ ret' = 0
    /\ pre' = Snapshot
    /\ UNCHANGED <<grtc, utc, retained, mainv, workv, cal, resets, boot0, wlog>>

utc_time_retention_active ==
    /\ op' = "retention_active"
    /\ ret' = grtc_retention_check(keeprunning)
    /\ pre' = Snapshot
    /\ UNCHANGED <<hw, utc, retained, mainv, workv, cal, resets, boot0, wlog>>

\* fault: the division rounds to nearest instead of truncating
us_to_ms_rounded(us) == (us + 500) \div 1000

\* utc_time_get_us() / 1000ULL
us_to_ms(us) == us \div 1000

\* utc_time_get_us() / 1000000ULL
us_to_sec(us) == us \div 1000000

utc_time_get_ms ==
    /\ op' = "get_ms"
    /\ ret' = us_to_ms(get_us_value(z_nrf_grtc_timer_read, calibrated, utc_offset))
    /\ pre' = Snapshot
    /\ UNCHANGED <<hw, utc, retained, mainv, workv, cal, resets, boot0, wlog>>

utc_time_get_sec ==
    /\ op' = "get_sec"
    /\ ret' = us_to_sec(get_us_value(z_nrf_grtc_timer_read, calibrated, utc_offset))
    /\ pre' = Snapshot
    /\ UNCHANGED <<hw, utc, retained, mainv, workv, cal, resets, boot0, wlog>>

\* fault: the seconds field filled with the milliseconds divisor
fill_time_sec_as_ms(us, isCal) ==
    [microseconds |-> us, milliseconds |-> us \div 1000,
     seconds |-> us \div 1000, calibrated |-> isCal]

\* lines 146-149: the utc_time_t filled from one reading us
fill_time(us, isCal) ==
    [microseconds |-> us, milliseconds |-> us \div 1000,
     seconds |-> us \div 1000000, calibrated |-> isCal]

\* a utc_time_t the caller has not had filled
BlankTime ==
    [microseconds |-> 0, milliseconds |-> 0, seconds |-> 0, calibrated |-> FALSE]

\* utc_time_get(time): time is NULL or points to the caller's structure;
\* reads counts the counter reads made, written tells whether *time was stored
utc_time_get(time) ==
    /\ op' = "get"
    /\ ret' = IF time = "null"
              THEN [time |-> time, reads |-> 0, written |-> FALSE, out |-> BlankTime]
              ELSE [time |-> time, reads |-> 1, written |-> TRUE,
                    out |-> fill_time(get_us_value(z_nrf_grtc_timer_read,
                                                   calibrated, utc_offset),
                                      calibrated)]
    /\ pre' = Snapshot
    /\ UNCHANGED <<hw, utc, retained, mainv, workv, cal, resets, boot0, wlog>>

\* fault: the operands of the difference swapped
diff_us_swapped(time1, time2) == time1 - time2

\* (int64_t)time2 - (int64_t)time1
diff_us(time1, time2) == time2 - time1

utc_time_diff_us(time1, time2) ==
    /\ op' = "diff_us"
    /\ ret' = [time1 |-> time1, time2 |-> time2, v |-> diff_us(time1, time2)]
    /\ pre' = Snapshot
    /\ UNCHANGED <<hw, utc, retained, mainv, workv, cal, resets, boot0, wlog>>

(***************************************************************************)
(* utc_time_format_us: text is a sequence of characters                    *)
(***************************************************************************)
Digits10 == <<"0", "1", "2", "3", "4", "5", "6", "7", "8", "9">>

\* what %llu prints
RECURSIVE Decimal(_)
Decimal(n) ==
    IF n < 10 THEN <<Digits10[n + 1]>>
    ELSE Decimal(n \div 10) \o <<Digits10[(n % 10) + 1]>>

\* what %0<w>llu prints: zero-padded to a width of at least w
RECURSIVE ZeroPad(_, _)
ZeroPad(str, w) == IF Len(str) >= w THEN str ELSE ZeroPad(<<"0">> \o str, w)

\* fault: the milliseconds component not reduced modulo 1000
ms_part_no_mod(us) == us \div 1000

\* line 190-192: sec, ms, remaining_us
sec_part(us) == us \div 1000000

ms_part(us) == (us \div 1000) % 1000

rem_part(us) == us % 1000

\* the text of "%llu.%03llu.%03llu s"
format_text(us) ==
    Decimal(sec_part(us)) \o <<".">> \o ZeroPad(Decimal(ms_part(us)), 3)
        \o <<".">> \o ZeroPad(Decimal(rem_part(us)), 3) \o <<" ", "s">>

ShorterOf(a, b) == IF a < b THEN a ELSE b

\* the characters snprintf stores for a text and a buffer size: none for
\* size 0, otherwise at most size - 1 characters and the terminator
snprintf_stores(text, size) ==
    IF size = 0 THEN <<>>
    ELSE SubSeq(text, 1, ShorterOf(Len(text), size - 1)) \o <<"NUL">>

\* the outcomes of snprintf(buffer, size, ...).  Storing through a null or
\* dangling pointer is undefined: the store faults (fault, no return value)
\* or lands somewhere (deref).  With size 0 nothing is stored.
snprintf_outcomes(us, buffer, size) ==
    LET text == format_text(us)
        base == [us |-> us, buffer |-> buffer, size |-> size, n |-> Len(text),
                 stored |-> snprintf_stores(text, size),
                 deref |-> size > 0, fault |-> FALSE]
    IN  IF buffer = "valid" \/ size = 0
        THEN {base}
        ELSE {base, [base EXCEPT !.fault = TRUE, !.n = 0, !.stored = <<>>]}

utc_time_format_us(us, buffer, size) ==
    /\ op' = "format_us"
    /\ ret' \in snprintf_outcomes(us, buffer, size)
    /\ pre' = Snapshot
    /\ UNCHANGED <<hw, utc, retained, mainv, workv, cal, resets, boot0, wlog>>

utc_time_format(buffer, size) ==
    /\ op' = "format"
    /\ ret' \in snprintf_outcomes(
                 get_us_value(z_nrf_grtc_timer_read, calibrated, utc_offset),
                 buffer, size)
    /\ pre' = Snapshot
    /\ UNCHANGED <<hw, utc, retained, mainv, workv, cal, resets, boot0, wlog>>

\* the counter advances by one tick
GrtcTick ==
    /\ grtc < MaxTick
    /\ grtc' = grtc + 1
    /\ op' = "tick"
    /\ UNCHANGED <<keeprunning, utc, retained, mainv, workv, ret, pre, cal,
                   resets, boot0, wlog>>

\* the counter after a soft reset: it keeps its value only under retention
grtc_after_reset(reg, t) == IF grtc_retention_check(reg) THEN t ELSE 0

\* fault: the statics are placed in memory that survives the reset
UtcSoftReset_keeps_statics ==
    /\ resets < MaxUtcResets
    /\ grtc' = grtc_after_reset(keeprunning, grtc)
    /\ op' = "reset"
    /\ cal' = [NoCal EXCEPT !.prev = cal.set \/ cal.prev]
    /\ resets' = resets + 1
    /\ UNCHANGED <<keeprunning, utc, retained, mainv, workv, ret, pre, boot0, wlog>>

\* a soft reset of an application using the module: the statics are
\* re-initialised, the KEEPRUNNING register keeps its value
UtcSoftReset ==
    /\ resets < MaxUtcResets
    /\ grtc' = grtc_after_reset(keeprunning, grtc)
    /\ utc_offset' = 0
    /\ calibrated' = FALSE
    /\ op' = "reset"
    /\ cal' = [NoCal EXCEPT !.prev = cal.set \/ cal.prev]
    /\ resets' = resets + 1
    /\ UNCHANGED <<keeprunning, retained, mainv, workv, ret, pre, boot0, wlog>>

ZeroBlock == [boots |-> 0, off_count |-> 0, uptime_latest |-> 0,
              uptime_sum |-> 0, crc |-> 0]

IdleInit ==
    /\ mpc = "off" /\ msleep = 0 /\ i = 0 /\ retained_ok = FALSE /\ grtc_raw = 0
    /\ wpc = "idle" /\ wdelay = NoTimer /\ wsleep = 0 /\ grtc_before = 0
    /\ resets = 0 /\ boot0 = NoBoot /\ wlog = <<>>

InitUtc ==
    /\ grtc \in 0..MaxTick
    /\ keeprunning \in 0..MaxRegInit
    /\ utc_offset = 0
    /\ calibrated = FALSE
    /\ retained = ZeroBlock
    /\ IdleInit
    /\ op = "init" /\ ret = 0 /\ cal = NoCal
    /\ pre = Snapshot

\* timestamps supplied to utc_time_calibrate: small ones and two just below
\* a millisecond and a second boundary
CalInputs == (0..MaxUtc) \cup {1999, 999999}

Pointers == {"null", "valid"}

NextUtc ==
    \/ \E U \in CalInputs : utc_time_calibrate(U)
    \/ utc_time_is_calibrated
    \/ utc_time_get_us
    \/ utc_time_get_ms
    \/ utc_time_get_sec
    \/ \E time \in Pointers : utc_time_get(time)
    \/ utc_time_enable_retention
    \/ utc_time_retention_active
    \/ GrtcTick
    \/ UtcSoftReset

SpecUtc == InitUtc /\ [][NextUtc]_vars

\* the functions of the module that depend on their arguments only, and
\* utc_time_format on an uncalibrated module
DiffInputs == (0..MaxUtc) \cup {50, 100}

FormatInputs == {0, 7, 999, 1000, 1001, 999999, 1000000, 1234567, 12000034,
                 59001002}

BufPointers == {"null", "dangling", "valid"}

\* char time_str[64] of the example, and sizes too small for the text
ExampleBufSize == 64

BufSizes == {0, 1, 5, ExampleBufSize}

InitFmt ==
    /\ grtc \in 0..MaxTick
    /\ keeprunning = 0
    /\ utc_offset = 0
    /\ calibrated = FALSE
    /\ retained = ZeroBlock
    /\ IdleInit
    /\ op = "init" /\ ret = 0 /\ cal = NoCal
    /\ pre = Snapshot

NextFmt ==
    \/ \E a \in DiffInputs, b \in DiffInputs : utc_time_diff_us(a, b)
    \/ \E us \in FormatInputs, buffer \in BufPointers, size \in BufSizes :
          utc_time_format_us(us, buffer, size)
    \/ \E buffer \in BufPointers, size \in BufSizes :
          utc_time_format(buffer, size)

SpecFmt == InitFmt /\ [][NextFmt]_vars

(***************************************************************************)
(* retained.h: the retained-state store (modelled from the specification)  *)
(***************************************************************************)
CrcMod == 65521
CrcSeed == 1

CrcStep(c, x) == (c * 31 + x) % CrcMod

\* the checksum of the four data fields of a block
crc_of(b) ==
    CrcStep(CrcStep(CrcStep(CrcStep(CrcSeed, b.boots), b.off_count),
                    b.uptime_latest), b.uptime_sum)

WithCrc(b) == [b EXCEPT !.crc = crc_of(b)]

\* what retained_validate returns for a block
retained_valid(b) == b.crc = crc_of(b)

\* fault: an invalid block is zeroed and its crc left at zero
validate_block_no_crc(b) == IF retained_valid(b) THEN b ELSE ZeroBlock

\* the block retained_validate leaves behind
validate_block(b) == IF retained_valid(b) THEN b ELSE WithCrc(ZeroBlock)

\* the block retained_update leaves behind for a counter reading
update_block(b, now) ==
    LET delta == IF now > b.uptime_latest THEN now - b.uptime_latest ELSE 0
    IN  WithCrc([b EXCEPT !.uptime_sum = @ + delta, !.uptime_latest = now])

\* the last two writes to the retained block, each with the boot it was made in
Logged(w) ==
    LET e == [what |-> w, boot |-> resets]
    IN  IF Len(wlog) < 2 THEN Append(wlog, e) ELSE <<wlog[2], e>>

(***************************************************************************)
(* main.c: the reboot self-test program                                    *)
(***************************************************************************)
Runnable == msleep = 0
WorkRunnable == wsleep = 0

\* line 139: bool retained_ok = retained_validate()
MainValidate ==
    /\ mpc = "validate" /\ Runnable
    /\ retained_ok' = retained_valid(retained)
    /\ retained' = validate_block(retained)
    /\ boot0' = IF boot0.done THEN boot0
                ELSE [done |-> TRUE, ok |-> retained_valid(retained),
                      boots |-> validate_block(retained).boots,
                      grtc |-> grtc]
    /\ wlog' = IF retained_valid(retained) THEN wlog ELSE Logged("validate_reset")
    /\ mpc' = "read_grtc"
    /\ op' = "validate" /\ ret' = retained_valid(retained) /\ pre' = Snapshot
    /\ UNCHANGED <<hw, utc, msleep, i, grtc_raw, workv, cal, resets>>

\* line 153: uint64_t grtc_raw = z_nrf_grtc_timer_read()
MainReadGrtc ==
    /\ mpc = "read_grtc" /\ Runnable
    /\ grtc_raw' = z_nrf_grtc_timer_read
    /\ mpc' = "classify"
    /\ op' = "read_grtc"
    /\ UNCHANGED <<hw, utc, retained, msleep, i, retained_ok, workv, ret, pre,
                   cal, resets, boot0, wlog>>

\* fault: a reading of exactly one second counted as "kept running"
counter_kept_running_ge(raw) == raw >= RetentionThresholdUs

\* line 160: if (grtc_raw > 1000000ULL)
counter_kept_running(raw) == raw > RetentionThresholdUs

\* lines 160-172: if (grtc_raw > 1000000ULL) retained.off_count++
MainClassify ==
    /\ mpc = "classify" /\ Runnable
    /\ IF counter_kept_running(grtc_raw)
       THEN /\ retained' = [retained EXCEPT !.off_count = @ + 1]
            /\ wlog' = Logged("off_count++")
       ELSE UNCHANGED <<retained, wlog>>
    /\ mpc' = "decide"
    /\ op' = "classify" /\ pre' = Snapshot
    /\ UNCHANGED <<hw, utc, msleep, i, retained_ok, grtc_raw, workv, ret, cal,
                   resets, boot0>>

\* faults: one reset too many / no limit at all
reboot_wanted_le(boots) == boots <= MAX_REBOOTS

reboot_wanted_always(boots) == TRUE

\* line 178: if (retained.boots < MAX_REBOOTS)
reboot_wanted(boots) == boots < MAX_REBOOTS

\* lines 178-202: schedule the reset work, or report the test complete
MainDecide ==
    /\ mpc = "decide" /\ Runnable
    /\ IF reboot_wanted(retained.boots)
       THEN /\ wdelay' = IF wdelay = NoTimer /\ wpc = "idle"
                         THEN RebootDelayUs ELSE wdelay
            /\ i' = CountdownStart
            /\ mpc' = "countdown"
       ELSE /\ mpc' = "loop_sleep1"
            /\ UNCHANGED <<wdelay, i>>
    /\ op' = "decide"
    /\ UNCHANGED <<hw, utc, retained, msleep, retained_ok, grtc_raw, wpc,
                   wsleep, grtc_before, ret, pre, cal, resets, boot0, wlog>>

\* lines 188-191: for (i = 10; i > 0; i--) k_sleep(K_SECONDS(1))
MainCountdown ==
    /\ mpc = "countdown" /\ Runnable
    /\ IF i > 0
       THEN /\ msleep' = OneSecondUs
            /\ mpc' = "countdown_next"
       ELSE /\ mpc' = "loop_sleep1"
            /\ UNCHANGED msleep
    /\ op' = "countdown"
    /\ UNCHANGED <<hw, utc, retained, i, retained_ok, grtc_raw, workv, ret,
                   pre, cal, resets, boot0, wlog>>

MainCountdownNext ==
    /\ mpc = "countdown_next" /\ Runnable
    /\ i' = i - 1
    /\ mpc' = "countdown"
    /\ op' = "countdown_next"
    /\ UNCHANGED <<hw, utc, retained, msleep, retained_ok, grtc_raw, workv,
                   ret, pre, cal, resets, boot0, wlog>>

\* line 210: k_sleep(K_SECONDS(1))
MainLoopSleep1 ==
    /\ mpc = "loop_sleep1" /\ Runnable
    /\ msleep' = OneSecondUs
    /\ mpc' = "loop_sleep10"
    /\ op' = "loop_sleep1"
    /\ UNCHANGED <<hw, utc, retained, i, retained_ok, grtc_raw, workv, ret,
                   pre, cal, resets, boot0, wlog>>

\* line 214: k_sleep(K_SECONDS(10))
MainLoopSleep10 ==
    /\ mpc = "loop_sleep10" /\ Runnable
    /\ msleep' = StatusPeriodUs
    /\ mpc' = "loop_update"
    /\ op' = "loop_sleep10"
    /\ UNCHANGED <<hw, utc, retained, i, retained_ok, grtc_raw, workv, ret,
                   pre, cal, resets, boot0, wlog>>

\* lines 215-218: retained_update() in the status loop
MainLoopUpdate ==
    /\ mpc = "loop_update" /\ Runnable
    /\ retained' = update_block(retained, z_nrf_grtc_timer_read)
    /\ wlog' = Logged("update@main")
    /\ mpc' = "loop_sleep1"
    /\ op' = "update@main" /\ pre' = Snapshot
    /\ UNCHANGED <<hw, utc, msleep, i, retained_ok, grtc_raw, workv, ret, cal,
                   resets, boot0>>

\* the delayed work item expires and the work queue runs reboot_work_handler
WorkStart ==
    /\ wpc = "idle" /\ wdelay = 0
    /\ wdelay' = NoTimer
    /\ wpc' = "w_read"
    /\ op' = "work_start"
    /\ UNCHANGED <<hw, utc, retained, mainv, wsleep, grtc_before, ret, pre,
                   cal, resets, boot0, wlog>>

\* line 112: uint64_t grtc_before = z_nrf_grtc_timer_read()
WorkReadGrtc ==
    /\ wpc = "w_read" /\ WorkRunnable
    /\ grtc_before' = z_nrf_grtc_timer_read
    /\ wpc' = "w_inc"
    /\ op' = "work_read"
    /\ UNCHANGED <<hw, utc, retained, mainv, wdelay, wsleep, ret, pre, cal,
                   resets, boot0, wlog>>

\* fault: the boot counter is not incremented before the reset
inc_boots_skipped(b) == b

\* line 121: retained.boots++
inc_boots(b) == [b EXCEPT !.boots = @ + 1]

WorkIncBoots ==
    /\ wpc = "w_inc" /\ WorkRunnable
    /\ retained' = inc_boots(retained)
    /\ wlog' = Logged("boots++")
    /\ wpc' = "w_update"
    /\ op' = "boots++" /\ pre' = Snapshot
    /\ UNCHANGED <<hw, utc, mainv, wdelay, wsleep, grtc_before, ret, cal,
                   resets, boot0>>

\* fault: the checksum is not recomputed after the increment
WorkUpdate_skipped ==
    /\ wpc = "w_update" /\ WorkRunnable
    /\ wpc' = "w_sleep"
    /\ op' = "update@work" /\ pre' = Snapshot
    /\ UNCHANGED <<hw, utc, retained, mainv, wdelay, wsleep, grtc_before, ret,
                   cal, resets, boot0, wlog>>

\* line 122: retained_update()
WorkUpdate ==
    /\ wpc = "w_update" /\ WorkRunnable
    /\ retained' = update_block(retained, z_nrf_grtc_timer_read)
    /\ wlog' = Logged("update@work")
    /\ wpc' = "w_sleep"
    /\ op' = "update@work" /\ pre' = Snapshot
    /\ UNCHANGED <<hw, utc, mainv, wdelay, wsleep, grtc_before, ret, cal,
                   resets, boot0>>

\* fault: the handler sleeps eleven seconds before the reset
WorkSleep_long ==
    /\ wpc = "w_sleep" /\ WorkRunnable
    /\ wsleep' = RebootDelayUs + OneSecondUs
    /\ wpc' = "w_reboot"
    /\ op' = "work_sleep"
    /\ UNCHANGED <<hw, utc, retained, mainv, wdelay, grtc_before, ret, pre,
                   cal, resets, boot0, wlog>>

\* line 127: k_msleep(100)
WorkSleep ==
    /\ wpc = "w_sleep" /\ WorkRunnable
    /\ wsleep' = LogFlushUs
    /\ wpc' = "w_reboot"
    /\ op' = "work_sleep"
    /\ UNCHANGED <<hw, utc, retained, mainv, wdelay, grtc_before, ret, pre,
                   cal, resets, boot0, wlog>>

\* line 130: sys_reboot(SYS_REBOOT_COLD).  The threads restart, the statics
\* are re-initialised, the retained block and the KEEPRUNNING register keep
\* their contents, the counter keeps its value only under retention.
SysReboot ==
    /\ wpc = "w_reboot" /\ WorkRunnable
    /\ grtc' = grtc_after_reset(keeprunning, grtc)
    /\ utc_offset' = 0 /\ calibrated' = FALSE
    /\ mpc' = "validate" /\ msleep' = 0 /\ i' = 0
    /\ retained_ok' = FALSE /\ grtc_raw' = 0
    /\ wpc' = "idle" /\ wdelay' = NoTimer /\ wsleep' = 0 /\ grtc_before' = 0
    /\ resets' = resets + 1
    /\ op' = "sys_reboot" /\ pre' = Snapshot
    /\ cal' = NoCal
    /\ UNCHANGED <<keeprunning, retained, ret, boot0, wlog>>

\* time passes while every thread is blocked, until the earliest wake-up
PositiveTimers == {t \in {msleep, wdelay, wsleep} : t > 0}

MinOf(S) == CHOOSE x \in S : \A y \in S : x <= y

AdvanceTime ==
    /\ msleep > 0
    /\ IF wpc = "idle" THEN wdelay # 0 ELSE wsleep > 0
    /\ LET d == MinOf(PositiveTimers) IN
        /\ grtc + d <= MaxGrtc
        /\ grtc' = grtc + d
        /\ msleep' = msleep - d
        /\ wdelay' = IF wdelay > 0 THEN wdelay - d ELSE wdelay
        /\ wsleep' = IF wsleep > 0 THEN wsleep - d ELSE wsleep
    /\ op' = "time"
    /\ UNCHANGED <<keeprunning, utc, retained, mpc, i, retained_ok, grtc_raw,
                   wpc, grtc_before, ret, pre, cal, resets, boot0, wlog>>

\* the contents the retained RAM may have at power-on
RamFields ==
    [boots : 0..MaxRamBoots, off_count : 0..MaxRamField,
     uptime_latest : 0..MaxRamField, uptime_sum : 0..MaxRamField]

FieldsBlock(f, c) ==
    [boots |-> f.boots, off_count |-> f.off_count,
     uptime_latest |-> f.uptime_latest, uptime_sum |-> f.uptime_sum, crc |-> c]

RamBlocks ==
    {FieldsBlock(f, c) : f \in RamFields, c \in {0}} \cup
    {WithCrc(FieldsBlock(f, 0)) : f \in RamFields} \cup
    {FieldsBlock(f, (crc_of(FieldsBlock(f, 0)) + 1) % CrcMod) : f \in RamFields}

\* counter readings main() may find at the first boot
BootGrtcValues == {0, RetentionThresholdUs, RetentionThresholdUs + 1}

Init ==
    /\ grtc \in BootGrtcValues
    /\ keeprunning \in 0..MaxRegInit
    /\ utc_offset = 0 /\ calibrated = FALSE
    /\ retained \in RamBlocks
    /\ mpc = "validate" /\ msleep = 0 /\ i = 0
    /\ retained_ok = FALSE /\ grtc_raw = 0
    /\ wpc = "idle" /\ wdelay = NoTimer /\ wsleep = 0 /\ grtc_before = 0
    /\ op = "init" /\ ret = FALSE /\ cal = NoCal
    /\ resets = 0 /\ boot0 = NoBoot /\ wlog = <<>>
    /\ pre = Snapshot

Next ==
    \/ MainValidate
    \/ MainReadGrtc
    \/ MainClassify
    \/ MainDecide
    \/ MainCountdown
    \/ MainCountdownNext
    \/ MainLoopSleep1
    \/ MainLoopSleep10
    \/ MainLoopUpdate
    \/ WorkStart
    \/ WorkReadGrtc
    \/ WorkIncBoots
    \/ WorkUpdate
    \/ WorkSleep
    \/ SysReboot
    \/ AdvanceTime

Spec == Init /\ [][Next]_vars

\* the retained-state store on its own, from any RAM contents
retained_validate ==
    /\ ret' = retained_valid(retained)
    /\ retained' = validate_block(retained)
    /\ op' = "validate" /\ pre' = Snapshot
    /\ UNCHANGED <<hw, utc, mainv, workv, cal, resets, boot0, wlog>>

retained_update ==
    /\ retained' = update_block(retained, z_nrf_grtc_timer_read)
    /\ op' = "update" /\ ret' = 0 /\ pre' = Snapshot
    /\ UNCHANGED <<hw, utc, mainv, workv, cal, resets, boot0, wlog>>

InitRetained ==
    /\ grtc \in 0..MaxTick
    /\ keeprunning = 0
    /\ utc_offset = 0 /\ calibrated = FALSE
    /\ retained \in RamBlocks
    /\ IdleInit
    /\ op = "init" /\ ret = 0 /\ cal = NoCal
    /\ pre = Snapshot

NextRetained ==
    \/ retained_validate
    \/ retained_update
    \/ GrtcTick

SpecRetained == InitRetained /\ [][NextRetained]_vars

\* the self-test program with its threads and the clock running
FairSpec == Spec /\ WF_vars(Next)

(***************************************************************************)
(* Properties of the utc_time module (specification SpecUtc)               *)
(***************************************************************************)
RetentionBit == grtc_retention_check(keeprunning)

\* C1: utc_time_get_us after utc_time_calibrate(U) made at counter reading
\* t0 returns U plus the ticks the counter advanced since (U itself when it
\* did not advance), also when t0 > U and the stored offset is negative, as
\* long as no reset and no further calibrate call intervened.
C1_CalibratedRead ==
    (op = "get_us" /\ cal.set) => ret = cal.U + (grtc - cal.t0)

C1_Witness ==
    /\ op = "get_us" /\ cal.set
    /\ cal.t0 > cal.U /\ utc_offset < 0
    /\ grtc > cal.t0
    /\ ret = cal.U + (grtc - cal.t0)

\* C2: in a boot in which utc_time_calibrate has not been called,
\* utc_time_get_us returns the raw counter reading and
\* utc_time_is_calibrated returns false.
C2_UncalibratedFallback ==
    ~cal.set =>
        /\ op = "get_us" => ret = grtc
        /\ op = "is_calibrated" => ret = FALSE

C2_Witness ==
    /\ ~cal.set /\ op = "get_us" /\ grtc > 0 /\ ret = grtc
    /\ resets > 0

\* C3: when utc_time_calibrate returns, the calibrated flag is true and the
\* retention bit is set, whatever the flag and the bit were before.
C3_CalibrateSetsFlagAndBit ==
    op = "calibrate" => (calibrated /\ RetentionBit)

C3_Witness ==
    /\ op = "calibrate"
    /\ ~pre.calibrated /\ ~grtc_retention_check(pre.keeprunning)
    /\ calibrated /\ RetentionBit

\* C10: utc_time_enable_retention leaves the retention bit set; a call made
\* when the bit is already set leaves the register as it was; and no step of
\* the module or soft reset clears the bit once it is set.
C10_RetentionIdempotentSticky ==
    [][/\ RetentionBit => RetentionBit'
       /\ op' = "enable_retention" =>
             /\ RetentionBit'
             /\ RetentionBit => keeprunning' = keeprunning]_vars

C10_Witness ==
    /\ op = "enable_retention"
    /\ grtc_retention_check(pre.keeprunning)
    /\ keeprunning = pre.keeprunning
    /\ resets > 0

\* C11: utc_time_enable_retention changes bit 0 of KEEPRUNNING and nothing
\* else: the other bits of the register, the counter, the calibration
\* offset and the calibrated flag are as before the call.
C11_EnableRetentionFrame ==
    op = "enable_retention" =>
        /\ keeprunning = pre.keeprunning +
              (IF grtc_retention_check(pre.keeprunning) THEN 0 ELSE Domain0Mask)
        /\ grtc = pre.grtc
        /\ utc_offset = pre.utc_offset
        /\ calibrated = pre.calibrated

C11_Witness ==
    /\ op = "enable_retention"
    /\ pre.keeprunning >= 2 /\ ~grtc_retention_check(pre.keeprunning)
    /\ keeprunning = pre.keeprunning + Domain0Mask
    /\ grtc = pre.grtc /\ grtc > 0

\* C12: after a soft reset, until utc_time_calibrate is called in the new
\* boot, calibrated is false and the offset is 0, so utc_time_get_us returns
\* the raw counter reading even if an earlier boot was calibrated.
C12_CalibrationLostOnReset ==
    (resets > 0 /\ ~cal.set) =>
        /\ ~calibrated /\ utc_offset = 0
        /\ op = "get_us" => ret = grtc

C12_Witness ==
    /\ resets > 0 /\ ~cal.set /\ cal.prev
    /\ op = "get_us" /\ ret = grtc /\ grtc > 0

\* the value utc_time_get_us returns in the current state
NowUs == get_us_value(grtc, calibrated, utc_offset)

\* C16: utc_time_get_ms and utc_time_get_sec return the utc_time_get_us
\* value of the same counter reading divided by 1,000 and 1,000,000,
\* truncated: the result times the divisor is at most that value and less
\* than one divisor below it.
C16_MsSecTruncate ==
    /\ op = "get_ms" => (ret * 1000 <= NowUs /\ NowUs < ret * 1000 + 1000)
    /\ op = "get_sec" => (ret * 1000000 <= NowUs /\ NowUs < ret * 1000000 + 1000000)

C16_Witness ==
    /\ op = "get_ms" /\ NowUs = 1999 /\ ret = 1

\* C20: utc_time_get with a structure fills it from one counter read:
\* microseconds is the utc_time_get_us value, milliseconds and seconds are
\* that value divided by 1,000 and 1,000,000, calibrated is the module's
\* flag; with a null pointer it reads no counter, stores nothing and leaves
\* the module state as it was.
C20_GetStruct ==
    op = "get" =>
        IF ret.time = "null"
        THEN /\ ret.reads = 0 /\ ~ret.written
             /\ grtc = pre.grtc /\ keeprunning = pre.keeprunning
             /\ utc_offset = pre.utc_offset /\ calibrated = pre.calibrated
        ELSE /\ ret.reads = 1 /\ ret.written
             /\ ret.out.microseconds = NowUs
             /\ ret.out.milliseconds * 1000 <= ret.out.microseconds
             /\ ret.out.microseconds < ret.out.milliseconds * 1000 + 1000
             /\ ret.out.seconds * 1000000 <= ret.out.microseconds
             /\ ret.out.microseconds < ret.out.seconds * 1000000 + 1000000
             /\ ret.out.calibrated = calibrated

C20_Witness ==
    /\ op = "get" /\ ret.time = "valid"
    /\ ret.out.calibrated /\ ret.out.seconds = 1 /\ ret.out.milliseconds = 1000

(***************************************************************************)
(* Properties of the argument-only functions (specification SpecFmt)       *)
(***************************************************************************)
\* C13: utc_time_format_us and utc_time_format called with a null or
\* otherwise invalid buffer store nothing, do not go through the pointer,
\* do not fault and leave the module state as it was.
C13_FormatNullNoOp ==
    (op \in {"format_us", "format"} /\ ret.buffer # "valid") =>
        /\ ~ret.deref /\ ~ret.fault /\ ret.stored = <<>>
        /\ grtc = pre.grtc /\ keeprunning = pre.keeprunning
        /\ utc_offset = pre.utc_offset /\ calibrated = pre.calibrated

\* C14: utc_time_diff_us(a, b) is b - a, signed and unclamped: negative
\* exactly when a > b, zero exactly when a = b, and the negation of
\* utc_time_diff_us(b, a).
C14_DiffSigned ==
    op = "diff_us" =>
        /\ ret.time1 + ret.v = ret.time2
        /\ (ret.v < 0) = (ret.time1 > ret.time2)
        /\ (ret.v = 0) = (ret.time1 = ret.time2)
        /\ ret.v = 0 - diff_us(ret.time2, ret.time1)

C14_Witness ==
    /\ op = "diff_us" /\ ret.time1 = 100 /\ ret.time2 = 50 /\ ret.v = 0 - 50

IsDigit(c) == \E d \in 1..10 : Digits10[d] = c

DigitValue(c) == (CHOOSE d \in 1..10 : Digits10[d] = c) - 1

\* the number a sequence of digits denotes
RECURSIVE NumberOf(_)
NumberOf(str) ==
    IF str = <<>> THEN 0
    ELSE 10 * NumberOf(SubSeq(str, 1, Len(str) - 1)) + DigitValue(str[Len(str)])

AllDigits(str) == str # <<>> /\ \A k \in 1..Len(str) : IsDigit(str[k])

\* C15: the text utc_time_format_us stores in a large enough buffer reads
\* <sec>.<ms>.<rem> s, ms and rem being exactly 3 digits each, with
\* 0 <= ms < 1000, 0 <= rem < 1000, sec * 1,000,000 + ms * 1,000 + rem = us
\* (so sec = us div 1,000,000, ms = (us div 1,000) mod 1,000, rem = us mod
\* 1,000), and the return value is the length of that text.
C15_FormatComponents ==
    (op = "format_us" /\ ret.buffer = "valid" /\ ret.size > ret.n) =>
        LET t == ret.stored
            n == ret.n
            secT == SubSeq(t, 1, n - 10)
            msT == SubSeq(t, n - 8, n - 6)
            remT == SubSeq(t, n - 4, n - 2)
        IN  /\ n >= 11 /\ Len(t) = n + 1 /\ t[n + 1] = "NUL"
            /\ t[n - 9] = "." /\ t[n - 5] = "." /\ t[n - 1] = " " /\ t[n] = "s"
            /\ AllDigits(secT) /\ AllDigits(msT) /\ AllDigits(remT)
            /\ Len(msT) = 3 /\ Len(remT) = 3
            /\ NumberOf(secT) * 1000000 + NumberOf(msT) * 1000 + NumberOf(remT)
                  = ret.us
            /\ (Len(secT) > 1 => secT[1] # "0")

C15_Witness ==
    /\ op = "format_us" /\ ret.us = 1234567 /\ ret.buffer = "valid"
    /\ ret.stored = <<"1", ".", "2", "3", "4", ".", "5", "6", "7", " ", "s", "NUL">>
    /\ ret.n = 11

(***************************************************************************)
(* Properties of the reboot self-test program (specifications Spec and     *)
(* FairSpec)                                                               *)
(***************************************************************************)
\* every thread is blocked in a sleep or waiting for work
AllAsleep == msleep > 0 /\ (wpc = "idle" \/ wsleep > 0)

HandlerPastIncrement == wpc \in {"w_update", "w_sleep", "w_reboot"}

\* C4: the retention bit is set whenever sys_reboot is issued.
C4_RetentionBeforeReset ==
    op = "sys_reboot" => grtc_retention_check(pre.keeprunning)

\* C5: after the first boot's validation boots changes only by +1, only in
\* the increment step of the reset handler, and never through
\* retained_update or a later validation; it equals its value after the
\* first validation plus the number of resets forced (plus one while the
\* handler is between its increment and its reset).
C5_BootsExact ==
    /\ [](boot0.done =>
            retained.boots =
                boot0.boots + resets + (IF HandlerPastIncrement THEN 1 ELSE 0))
    /\ [][(boot0.done /\ retained'.boots # retained.boots) =>
            /\ retained'.boots = retained.boots + 1
            /\ wpc = "w_inc" /\ wpc' = "w_update"]_vars

C5_Witness ==
    /\ resets = MAX_REBOOTS
    /\ retained.boots = boot0.boots + MAX_REBOOTS
    /\ op = "update@main"
    /\ retained.boots = pre.retained.boots

\* C6: when sys_reboot is issued, the last two writes to the retained block
\* are the boots increment and the retained_update of that same boot (the
\* boot being ended), in that order, so nothing wrote the block after the
\* recompute.
C6_ResetAfterBootWrite ==
    op = "sys_reboot" =>
        wlog = <<[what |-> "boots++", boot |-> resets - 1],
                 [what |-> "update@work", boot |-> resets - 1]>>

C6_Witness ==
    /\ op = "sys_reboot" /\ resets = 2
    /\ wlog = <<[what |-> "boots++", boot |-> 1],
                [what |-> "update@work", boot |-> 1]>>

\* C7: from a first boot whose validation fails (boots = 0 after it) the
\* program forces exactly MAX_REBOOTS resets, boots being incremented before
\* each, and the validation of the fourth boot succeeds with boots = 3.
FirstBootInvalid == boot0.done /\ ~boot0.ok

FourthBootValidated ==
    /\ resets = MAX_REBOOTS /\ op = "validate"
    /\ ret = TRUE /\ retained.boots = MAX_REBOOTS

C7_Continuity ==
    /\ [](FirstBootInvalid =>
            /\ boot0.boots = 0
            /\ resets <= MAX_REBOOTS
            /\ op = "validate" => (ret = (resets > 0) /\ retained.boots = resets)
            /\ op = "sys_reboot" => retained.boots = resets)
    /\ (FirstBootInvalid /\ resets = 0) ~> FourthBootValidated

C7_Witness == FirstBootInvalid /\ FourthBootValidated

\* C8: after the boot's validation, whenever every thread is asleep and at
\* the moment a reset is issued, the stored crc is the checksum of the four
\* data fields.
C8_CrcAtRest ==
    /\ AllAsleep => retained_valid(retained)
    /\ op = "sys_reboot" => retained_valid(pre.retained)

\* C17: while the reset handler is in its sequence (from its start to the
\* reset) the main thread neither writes the retained block nor is about to:
\* its off_count increment and its periodic retained_update never fall
\* between the handler's steps.
HandlerRunning == wpc # "idle"

MainAboutToWrite == mpc \in {"classify", "loop_update"} /\ msleep = 0

MainWriteStep ==
    \/ mpc = "classify" /\ mpc' = "decide" /\ retained' # retained
    \/ mpc = "loop_update" /\ mpc' = "loop_sleep1"

C17_NoConcurrentMutators ==
    /\ [](HandlerRunning => ~MainAboutToWrite)
    /\ [][HandlerRunning => ~MainWriteStep]_vars

C17_Witness ==
    /\ wpc = "w_update" /\ msleep = 0 /\ mpc = "countdown" /\ i = 0
    /\ retained.off_count > 0

\* C18 as stated: after validation boots never exceeds MAX_REBOOTS.
C18_BootsAtMostMax == boot0.done => retained.boots <= MAX_REBOOTS

\* C18 amended: a reset is scheduled only in a boot with boots <
\* MAX_REBOOTS, so boots never exceeds the larger of MAX_REBOOTS and the
\* value the first validation left; when that value is at most MAX_REBOOTS
\* the program reaches a boot with boots = MAX_REBOOTS and no reset pending
\* and stays so for ever, so that no reset is forced any more.
TestComplete ==
    /\ boot0.done /\ retained.boots = MAX_REBOOTS
    /\ wpc = "idle" /\ wdelay = NoTimer

LargerOf(a, b) == IF a > b THEN a ELSE b

\* the reset work is scheduled or its handler has not yet incremented boots
ResetPending == wdelay # NoTimer \/ wpc \in {"w_read", "w_inc"}

C18_RebootsBounded ==
    /\ [](ResetPending => retained.boots < MAX_REBOOTS)
    /\ [](boot0.done => retained.boots <= LargerOf(MAX_REBOOTS, boot0.boots))
    /\ (boot0.done /\ boot0.boots <= MAX_REBOOTS) ~> [](TestComplete)

C18_Witness ==
    /\ TestComplete /\ resets = MAX_REBOOTS /\ op = "update@main"

\* C19: the classification step of a boot adds exactly 1 to off_count when
\* the counter reading taken at that boot exceeds 1,000,000 and leaves it
\* alone otherwise, and nothing else changes off_count after the first
\* validation; so when the first boot is a cold start (block found invalid,
\* counter at most 1,000,000), off_count is at most boots when a boot has
\* completed its classification and when a reset has been issued.
ColdFirstBoot ==
    boot0.done /\ ~boot0.ok /\ boot0.grtc <= RetentionThresholdUs

C19_OffCount ==
    /\ [][(mpc = "classify" /\ mpc' = "decide") =>
            retained'.off_count = retained.off_count +
                (IF grtc_raw > RetentionThresholdUs THEN 1 ELSE 0)]_vars
    /\ [][(boot0.done /\ retained'.off_count # retained.off_count) =>
            mpc = "classify"]_vars
    /\ [](ColdFirstBoot =>
            (op \in {"classify", "sys_reboot"} =>
                retained.off_count <= retained.boots))

C19_Witness ==
    /\ ColdFirstBoot /\ op = "classify" /\ resets = MAX_REBOOTS
    /\ retained.off_count = MAX_REBOOTS /\ retained.boots = MAX_REBOOTS

(***************************************************************************)
(* Properties of the retained-state store (specification SpecRetained)     *)
(***************************************************************************)
ZeroFields(b) ==
    b.boots = 0 /\ b.off_count = 0 /\ b.uptime_latest = 0 /\ b.uptime_sum = 0

\* C9: validate on a block whose crc is the checksum of its fields returns
\* true and leaves the block as it was; on any other block it returns false,
\* zeroes the four fields and stores the matching crc, so a validate that
\* follows immediately returns true.
C9_ValidateRoundTrip ==
    op = "validate" =>
        /\ retained_valid(pre.retained) => (ret = TRUE /\ retained = pre.retained)
        /\ ~retained_valid(pre.retained) =>
              (ret = FALSE /\ ZeroFields(retained) /\ retained.crc = crc_of(retained))
        /\ pre.op = "validate" => ret = TRUE

C9_Witness ==
    /\ op = "validate" /\ pre.op = "validate" /\ ret = TRUE
    /\ ZeroFields(retained) /\ retained.crc # 0

====
